---------------------------- MODULE Spec2Model ----------------------------
(***************************************************************************)
(* Model of scripts/attention_weights.py: extract_data folds the batches   *)
(* of the test split into flat edge arrays, reduces them to an element x   *)
(* element matrix of mean attention and a matrix of bond probabilities,    *)
(* and pickles the result; visualize reads the pickle, labels the plots    *)
(* and draws the moving average of attention over distance.                *)
(*                                                                         *)
(* Tensors are sequences (Python index k is index k+1 here).  A float is   *)
(* an exact rational <<numerator, denominator>> in lowest terms; NaN is    *)
(* <<0, 0>>.                                                               *)
(***************************************************************************)
EXTENDS Integers, Sequences, FiniteSets

(* ------------------------------ bounds --------------------------------- *)

\* Atoms of the whole test split (the loader stops once they are consumed).
MaxAtomsTotal == 2
\* Length of the raw edge arrays of a stored snapshot (SpecSmooth).
MaxSamples == 3
\* Largest moving-average width tried (the script fixes ma_width = 1000).
MaxWindow == 3

\* Atoms of one batch.
MoleculeSizes == {1, 2}
\* Atomic numbers in use (a subset of the keys of num2elem).
Elems == {1, 6}
\* Attention weights the model may emit for an edge.
Weights == {1, 2}
\* Distances of the samples of a stored snapshot (SpecSmooth).
Dists == {1, 2}

(* --------------------------- program constants ------------------------- *)

num2elem ==
    [z \in {1, 6, 7, 8, 9} |->
        CASE z = 1 -> "H" [] z = 6 -> "C" [] z = 7 -> "N" [] z = 8 -> "O" [] z = 9 -> "F"]

z1 == 1
z2 == 6

(* ------------------------------ floats --------------------------------- *)

RECURSIVE GCD(_, _)
GCD(a, b) == IF b = 0 THEN a ELSE GCD(b, a % b)

NaN == <<0, 0>>

Frac(n, d) == LET g == GCD(n, d) IN <<n \div g, d \div g>>

IsNaN(x) == x[2] = 0

RatAdd(p, q) ==
    IF IsNaN(p) \/ IsNaN(q) THEN NaN
    ELSE Frac(p[1] * q[2] + q[1] * p[2], p[2] * q[2])

\* p / q; 0/0 is NaN (a nonzero p over zero would be inf: no caller divides so).
RatDiv(p, q) ==
    IF IsNaN(p) \/ IsNaN(q) \/ q[1] = 0 THEN NaN
    ELSE Frac(p[1] * q[2], p[2] * q[1])

RECURSIVE SumSeq(_)
SumSeq(s) == IF s = <<>> THEN 0 ELSE Head(s) + SumSeq(Tail(s))

RECURSIVE RatSum(_)
RatSum(s) == IF s = <<>> THEN <<0, 1>> ELSE RatAdd(Head(s), RatSum(Tail(s)))

(* --------------------------- tensor helpers ---------------------------- *)

Range(s) == {s[k] : k \in DOMAIN s}

\* torch.cat of a list of 1-D tensors.
RECURSIVE Cat(_)
Cat(list) == IF list = <<>> THEN <<>> ELSE Head(list) \o Cat(Tail(list))

\* t[idx] with an index tensor.
Gather(t, idx) == [k \in 1..Len(idx) |-> t[idx[k]]]

\* t[mask] with a boolean mask.
RECURSIVE MaskedFrom(_, _, _)
MaskedFrom(t, mask, k) ==
    IF k > Len(t) THEN <<>>
    ELSE (IF mask[k] THEN <<t[k]>> ELSE <<>>) \o MaskedFrom(t, mask, k + 1)

Masked(t, mask) == MaskedFrom(t, mask, 1)

\* The ascending sequence of a finite set of integers.
RECURSIVE SortedSeq(_)
SortedSeq(S) ==
    IF S = {} THEN <<>>
    ELSE LET m == CHOOSE x \in S : \A y \in S : x <= y
         IN <<m>> \o SortedSeq(S \ {m})

\* The ascending sequence of the entries of t, repeated entries kept.
RECURSIVE SortedSeqOfBag(_)
SortedSeqOfBag(t) ==
    IF t = <<>> THEN <<>>
    ELSE LET k == CHOOSE i \in 1..Len(t) : \A j \in 1..Len(t) : t[i] <= t[j]
         IN <<t[k]>> \o SortedSeqOfBag([i \in 1..(Len(t) - 1) |->
                                            IF i < k THEN t[i] ELSE t[i + 1]])

PairLE(p, q) == p[1] < q[1] \/ (p[1] = q[1] /\ p[2] <= q[2])

\* The lexicographically ascending sequence of a finite set of pairs.
RECURSIVE SortedPairs(_)
SortedPairs(S) ==
    IF S = {} THEN <<>>
    ELSE LET m == CHOOSE x \in S : \A y \in S : PairLE(x, y)
         IN <<m>> \o SortedPairs(S \ {m})

Columns(r0, r1) == [k \in 1..Len(r0) |-> <<r0[k], r1[k]>>]

\* tensor.unique(): the sorted distinct values.
Unique(t) == SortedSeq(Range(t))

\* torch.unique(t, dim=1) of a 2 x N tensor: its distinct columns, sorted.
UniqueCols(r0, r1) == SortedPairs(Range(Columns(r0, r1)))

IndexOf(s, x) == CHOOSE k \in 1..Len(s) : s[k] = x

\* return_inverse: for each column, the place of its value in UniqueCols.
InverseIndex(r0, r1) ==
    LET u == UniqueCols(r0, r1)
    IN [k \in 1..Len(r0) |-> IndexOf(u, <<r0[k], r1[k]>>)]

\* return_counts: how many columns carry each distinct value.
ColumnCounts(r0, r1) ==
    LET u == UniqueCols(r0, r1)
    IN [k \in 1..Len(u) |->
          Cardinality({i \in 1..Len(r0) : <<r0[i], r1[i]>> = u[k]})]


\* Mutant of ScatterMean: plain index assignment, the last write wins.
ScatterLast(src, index) ==
    LET size == IF index = <<>> THEN 0
                ELSE CHOOSE m \in Range(index) : \A x \in Range(index) : x <= m
        group(k) == Masked(src, [i \in 1..Len(index) |-> index[i] = k])
    IN [k \in 1..size |->
          IF group(k) = <<>> THEN <<0, 1>>
          ELSE <<group(k)[Len(group(k))], 1>>]

\* torch_scatter.scatter(src, index, dim=0, reduce='mean'): one output per index
\* value up to the largest, the mean of the entries of src that carry it.
ScatterMean(src, index) ==
    LET size == IF index = <<>> THEN 0
                ELSE CHOOSE m \in Range(index) : \A x \in Range(index) : x <= m
        group(k) == Masked(src, [i \in 1..Len(index) |-> index[i] = k])
    IN [k \in 1..size |->
          IF group(k) = <<>> THEN <<0, 1>>
          ELSE Frac(SumSeq(group(k)), Len(group(k)))]

\* Mutant of Reshape: column-major, rows and columns swapped.
ReshapeTransposed(t, n) == [i \in 1..n |-> [j \in 1..n |-> t[(j - 1) * n + i]]]

\* t.reshape(n, n) of a 1-D tensor of n*n entries, row-major.
Reshape(t, n) == [i \in 1..n |-> [j \in 1..n |-> t[(i - 1) * n + j]]]

\* Mutant of Zeros: the matrix starts as NaN.
NaNs(n) == [i \in 1..n |-> [j \in 1..n |-> NaN]]

\* torch.zeros(n, n).
Zeros(n) == [i \in 1..n |-> [j \in 1..n |-> <<0, 1>>]]

\* m[i0, i1] = vals: the assignments in index order.
RECURSIVE IndexPut(_, _, _, _)
IndexPut(m, i0, i1, vals) ==
    IF vals = <<>> THEN m
    ELSE IndexPut([m EXCEPT ![Head(i0)][Head(i1)] = Head(vals)],
                  Tail(i0), Tail(i1), Tail(vals))


(* ------------------------------ batches -------------------------------- *)

AtomPairs(n) == (1..n) \X (1..n)

\* One batch as the loop body reads it: the atoms' elements and positions (on
\* a line, unit spacing), the edges and weights the model's last rollout
\* recorded for it, and its bond list.
BatchOf(z, E, w, B) ==
    [z |-> z,
     pos |-> [k \in 1..Len(z) |-> k - 1],
     rollout_index |-> <<[k \in 1..Len(E) |-> E[k][1]], [k \in 1..Len(E) |-> E[k][2]]>>,
     rollout_weights |-> w,
     edge_index |-> <<[k \in 1..Len(B) |-> B[k][1]], [k \in 1..Len(B) |-> B[k][2]]>>]

(* ------------------------- the extraction loop ------------------------- *)

Abs(x) == IF x < 0 THEN -x ELSE x

\* ((pos[i] - pos[j]) ** 2).sum(dim=-1).sqrt() for positions on a line.
EdgeDistances(batch) ==
    [k \in 1..Len(batch.rollout_index[1]) |->
        Abs(batch.pos[batch.rollout_index[1][k]] - batch.pos[batch.rollout_index[2][k]])]

\* if elem not in atoms_per_elem: atoms_per_elem[elem] = 0
\* atoms_per_elem[elem] += (batch.z == elem).sum()
\* The dict is the sequence of its <<key, value>> items in insertion order.
CountElem(ape, elem, z) ==
    LET c == Cardinality({k \in 1..Len(z) : z[k] = elem})
        d == IF \E k \in 1..Len(ape) : ape[k][1] = elem
             THEN ape ELSE Append(ape, <<elem, 0>>)
    IN [k \in 1..Len(d) |-> IF d[k][1] = elem THEN <<elem, d[k][2] + c>> ELSE d[k]]

RECURSIVE CountAtoms(_, _, _)
CountAtoms(ape, elems, z) ==
    IF elems = <<>> THEN ape
    ELSE CountAtoms(CountElem(ape, Head(elems), z), Tail(elems), z)

EmptyAcc ==
    [zs_0 |-> <<>>, zs_1 |-> <<>>, zs_0_ref |-> <<>>, zs_1_ref |-> <<>>,
     atoms_per_elem |-> <<>>, distances |-> <<>>, rollout_weights |-> <<>>]

\* One pass of the loop body over a batch.
BatchStep(acc, batch) ==
    [zs_0 |-> Append(acc.zs_0, Gather(batch.z, batch.rollout_index[1])),
     zs_1 |-> Append(acc.zs_1, Gather(batch.z, batch.rollout_index[2])),
     zs_0_ref |-> Append(acc.zs_0_ref, Gather(batch.z, batch.edge_index[1])),
     zs_1_ref |-> Append(acc.zs_1_ref, Gather(batch.z, batch.edge_index[2])),
     atoms_per_elem |-> CountAtoms(acc.atoms_per_elem, Unique(batch.z), batch.z),
     distances |-> Append(acc.distances, EdgeDistances(batch)),
     rollout_weights |-> Append(acc.rollout_weights, batch.rollout_weights)]

(* --------------------------- the reductions ---------------------------- *)

\* Mutant of NormalizeElem: divides by the total over all sources.
NormalizeElemByAll(counts, src, elem) ==
    LET sel == [k \in 1..Len(src) |-> src[k] = elem]
        total == RatSum(counts)
    IN [k \in 1..Len(counts) |-> IF sel[k] THEN RatDiv(counts[k], total) ELSE counts[k]]

\* for elem in zs_ref.unique():
\*     counts_ref[zs_ref[0] == elem] /= counts_ref[zs_ref[0] == elem].sum()
NormalizeElem(counts, src, elem) ==
    LET sel == [k \in 1..Len(src) |-> src[k] = elem]
        total == RatSum(Masked(counts, sel))
    IN [k \in 1..Len(counts) |-> IF sel[k] THEN RatDiv(counts[k], total) ELSE counts[k]]

RECURSIVE NormalizeRows(_, _, _)
NormalizeRows(counts, src, elems) ==
    IF elems = <<>> THEN counts
    ELSE NormalizeRows(NormalizeElem(counts, src, Head(elems)), src, Tail(elems))

NoPkl ==
    [zs |-> <<>>, attn |-> <<>>, zs_ref |-> <<>>, counts_ref_square |-> <<>>,
     atoms_per_elem |-> <<>>, zs_full |-> <<<<>>, <<>>>>, attn_full |-> <<>>,
     dist |-> <<>>]

\* extract_data after the loop: the exception it dies of ("none": it returns)
\* and the tuple it pickles.
Finalize(acc) ==
    IF acc.zs_0 = <<>> THEN [err |-> "RuntimeError", pkl |-> NoPkl]
    ELSE
    LET full0 == Cat(acc.zs_0)
        full1 == Cat(acc.zs_1)
        elems == Unique(full0 \o full1)
        n_elements == Len(elems)
        cols == UniqueCols(full0, full1)
        index == InverseIndex(full0, full1)
    IN
    IF Len(cols) # n_elements * n_elements
    THEN [err |-> "RuntimeError", pkl |-> NoPkl]
    ELSE IF n_elements = 0 THEN [err |-> "IndexError", pkl |-> NoPkl]
    ELSE
    LET zs == [j \in 1..n_elements |-> cols[j][2]]
        attn_full == Cat(acc.rollout_weights)
        attn == Reshape(ScatterMean(attn_full, index), n_elements)
        ref0 == Cat(acc.zs_0_ref)
        ref1 == Cat(acc.zs_1_ref)
        rcols == UniqueCols(ref0, ref1)
        rsrc == [k \in 1..Len(rcols) |-> rcols[k][1]]
        rtgt == [k \in 1..Len(rcols) |-> rcols[k][2]]
        counts0 == [k \in 1..Len(rcols) |-> <<ColumnCounts(ref0, ref1)[k], 1>>]
        counts_ref == NormalizeRows(counts0, rsrc, Unique(rsrc \o rtgt))
        z2idx == [z \in Range(elems) |-> IndexOf(elems, z)]
    IN
    IF \E z \in Range(rsrc \o rtgt) : z \notin DOMAIN z2idx
    THEN [err |-> "KeyError", pkl |-> NoPkl]
    ELSE
    [err |-> "none",
     pkl |-> [zs |-> zs,
              attn |-> attn,
              zs_ref |-> Unique(rsrc),
              counts_ref_square |->
                  IndexPut(Zeros(n_elements),
                           [k \in 1..Len(rsrc) |-> z2idx[rsrc[k]]],
                           [k \in 1..Len(rtgt) |-> z2idx[rtgt[k]]],
                           counts_ref),
              atoms_per_elem |-> acc.atoms_per_elem,
              zs_full |-> <<full0, full1>>,
              attn_full |-> attn_full,
              dist |-> Cat(acc.distances)]]


(* ---------------------------- the smoother ----------------------------- *)

\* Mutant of PairMask: only the ordering (z1, z2).
PairMaskOneWay(zs_full) ==
    [i \in 1..Len(zs_full[1]) |-> zs_full[1][i] = z1 /\ zs_full[2][i] = z2]

\* mask = ((zs_full[0] == z1) & (zs_full[1] == z2)) | ((zs_full[0] == z2) & (zs_full[1] == z1))
PairMask(zs_full) ==
    [i \in 1..Len(zs_full[1]) |->
        \/ (zs_full[1][i] = z1 /\ zs_full[2][i] = z2)
        \/ (zs_full[1][i] = z2 /\ zs_full[2][i] = z1)]

\* What t.argsort() may return: torch's default sort is not stable, so any
\* permutation that puts t in ascending order.
ArgSorts(t) ==
    {p \in [1..Len(t) -> 1..Len(t)] :
        /\ \A i, j \in 1..Len(t) : i # j => p[i] # p[j]
        /\ \A i \in 1..(Len(t) - 1) : t[p[i]] <= t[p[i + 1]]}

\* t.sort().values
SortValues(t) == SortedSeqOfBag(t)

\* The samples whose mean Series.rolling(w).mean() reports at position k.
RollingWindow(k, w) == (k - w + 1)..k

\* Series.rolling(w).mean(): NaN until w samples are available.
RollingMean(series, w) ==
    [k \in 1..Len(series) |->
        IF k < w THEN NaN
        ELSE Frac(SumSeq([i \in 1..w |-> series[k - w + i]]), w)]

\* The position Series.shift(periods) reads the value of position k from.
ShiftSource(k, periods) == k - periods

\* Mutant of Shift: the sign of periods is flipped.
ShiftBackwards(series, periods) ==
    [k \in 1..Len(series) |->
        IF ShiftSource(k, -periods) \in 1..Len(series)
        THEN series[ShiftSource(k, -periods)] ELSE NaN]

\* Series.shift(periods): positions shifted out of range are NaN.
Shift(series, periods) ==
    [k \in 1..Len(series) |->
        IF ShiftSource(k, periods) \in 1..Len(series)
        THEN series[ShiftSource(k, periods)] ELSE NaN]

NoFig ==
    [elements |-> <<>>, elements_ref |-> <<>>, ma_width |-> 0, order |-> <<>>,
     x |-> <<>>, averaged |-> <<>>]

\* What visualize draws from a snapshot: the tick labels of the two matrix
\* plots and the points of the attention-by-distance scatter plot.
Figure(snapshot, ma_width, order) ==
    LET mask == PairMask(snapshot.zs_full)
        series == Gather(Masked(snapshot.attn_full, mask), order)
    IN [elements |-> [k \in 1..Len(snapshot.zs) |-> num2elem[snapshot.zs[k]]],
        elements_ref |-> [k \in 1..Len(snapshot.zs_ref) |-> num2elem[snapshot.zs_ref[k]]],
        ma_width |-> ma_width,
        order |-> order,
        x |-> SortValues(Masked(snapshot.dist, mask)),
        averaged |-> Shift(RollingMean(series, ma_width), -ma_width)]

(* ------------------------------- state --------------------------------- *)

VARIABLES
    pc,               \* "loop", "saved" (pickle written), "failed" (raised), "shown"
    yielded,          \* the batches the shuffling loader has yielded so far
    zs_0, zs_1,       \* extract_data's lists, one tensor per batch
    zs_0_ref, zs_1_ref,
    atoms_per_elem,
    distances,
    rollout_weights,  \* the attention collector's list
    err,              \* the exception extract_data raised, or "none"
    pkl,              \* attn_weights.pkl
    fig               \* what visualize drew

vars == <<pc, yielded, zs_0, zs_1, zs_0_ref, zs_1_ref, atoms_per_elem, distances,
          rollout_weights, err, pkl, fig>>

Acc ==
    [zs_0 |-> zs_0, zs_1 |-> zs_1, zs_0_ref |-> zs_0_ref, zs_1_ref |-> zs_1_ref,
     atoms_per_elem |-> atoms_per_elem, distances |-> distances,
     rollout_weights |-> rollout_weights]

AtomsSeen == SumSeq([k \in 1..Len(atoms_per_elem) |-> atoms_per_elem[k][2]])

Init ==
    /\ pc = "loop"
    /\ yielded = <<>>
    /\ zs_0 = <<>> /\ zs_1 = <<>>
    /\ zs_0_ref = <<>> /\ zs_1_ref = <<>>
    /\ atoms_per_elem = <<>>
    /\ distances = <<>>
    /\ rollout_weights = <<>>
    /\ err = "none"
    /\ pkl = NoPkl
    /\ fig = NoFig

\* for batch in tqdm(data): the loader yields the next batch of the split.
Loader ==
    /\ pc = "loop"
    /\ \E n \in {m \in MoleculeSizes : AtomsSeen + m <= MaxAtomsTotal} :
       \E z \in [1..n -> Elems], S \in SUBSET AtomPairs(n), T \in SUBSET AtomPairs(n) :
       \E w \in [1..Cardinality(S) -> Weights] :
       LET batch == BatchOf(z, SortedPairs(S), w, SortedPairs(T)) IN
        /\ LET next == BatchStep(Acc, batch)
           IN /\ zs_0' = next.zs_0
              /\ zs_1' = next.zs_1
              /\ zs_0_ref' = next.zs_0_ref
              /\ zs_1_ref' = next.zs_1_ref
              /\ atoms_per_elem' = next.atoms_per_elem
              /\ distances' = next.distances
              /\ rollout_weights' = next.rollout_weights
        /\ yielded' = Append(yielded, batch)
    /\ UNCHANGED <<pc, err, pkl, fig>>

\* The loader is exhausted: reduce and pickle, or die of the first exception.
Aggregate ==
    /\ pc = "loop"
    /\ LET r == Finalize(Acc)
       IN /\ err' = r.err
          /\ pkl' = r.pkl
          /\ pc' = IF r.err = "none" THEN "saved" ELSE "failed"
    /\ UNCHANGED <<yielded, zs_0, zs_1, zs_0_ref, zs_1_ref, atoms_per_elem,
                   distances, rollout_weights, fig>>

\* visualize(weights_directory): ma_width is a local constant of the script,
\* drawn here from 1..MaxWindow.
Visualize ==
    /\ pc = "saved"
    /\ \E order \in ArgSorts(Masked(pkl.dist, PairMask(pkl.zs_full))) :
       \E ma_width \in 1..MaxWindow :
          fig' = Figure(pkl, ma_width, order)
    /\ pc' = "shown"
    /\ UNCHANGED <<yielded, zs_0, zs_1, zs_0_ref, zs_1_ref, atoms_per_elem,
                   distances, rollout_weights, err, pkl>>

Next == Loader \/ Aggregate \/ Visualize

Spec == Init /\ [][Next]_vars

\* visualize run on its own (--extract-data unset) over a stored snapshot.
InitSnapshot ==
    /\ pc = "saved"
    /\ yielded = <<>>
    /\ zs_0 = <<>> /\ zs_1 = <<>>
    /\ zs_0_ref = <<>> /\ zs_1_ref = <<>>
    /\ atoms_per_elem = <<>>
    /\ distances = <<>>
    /\ rollout_weights = <<>>
    /\ err = "none"
    /\ \E n \in 0..MaxSamples :
       \E a \in [1..n -> Elems], b \in [1..n -> Elems],
          w \in [1..n -> Weights], d \in [1..n -> Dists] :
          pkl = [NoPkl EXCEPT !.zs_full = <<a, b>>, !.attn_full = w, !.dist = d]
    /\ fig = NoFig

SpecSmooth == InitSnapshot /\ [][Visualize]_vars


(* ------------------- the input, read edge by edge ---------------------- *)

\* An edge is <<b, k>>: entry k of the list of batch b.
AttnEdges ==
    {e \in (1..Len(yielded)) \X (1..(MaxAtomsTotal * MaxAtomsTotal)) :
        e[2] <= Len(yielded[e[1]].rollout_weights)}

RefEdges ==
    {e \in (1..Len(yielded)) \X (1..(MaxAtomsTotal * MaxAtomsTotal)) :
        e[2] <= Len(yielded[e[1]].edge_index[1])}

Src(e) == yielded[e[1]].z[yielded[e[1]].rollout_index[1][e[2]]]
Tgt(e) == yielded[e[1]].z[yielded[e[1]].rollout_index[2][e[2]]]
Weight(e) == yielded[e[1]].rollout_weights[e[2]]
RefSrc(e) == yielded[e[1]].z[yielded[e[1]].edge_index[1][e[2]]]
RefTgt(e) == yielded[e[1]].z[yielded[e[1]].edge_index[2][e[2]]]

AttnElems == {Src(e) : e \in AttnEdges} \cup {Tgt(e) : e \in AttnEdges}
RefElems == {RefSrc(e) : e \in RefEdges} \cup {RefTgt(e) : e \in RefEdges}

EdgesOf(a, b) == {e \in AttnEdges : Src(e) = a /\ Tgt(e) = b}
RefEdgesOf(a, b) == {e \in RefEdges : RefSrc(e) = a /\ RefTgt(e) = b}
RefEdgesFrom(a) == {e \in RefEdges : RefSrc(e) = a}

RECURSIVE TotalWeight(_)
TotalWeight(E) ==
    IF E = {} THEN 0
    ELSE LET e == CHOOSE x \in E : TRUE IN Weight(e) + TotalWeight(E \ {e})

\* Every ordered pair of the elements of the attention edges has an edge.
AttnComplete ==
    /\ AttnEdges # {}
    /\ \A a, b \in AttnElems : EdgesOf(a, b) # {}

Returned == pc \in {"saved", "shown"}
Ended == pc # "loop"

(* ------------------------------- claims -------------------------------- *)

\* C1: whenever extract_data completes, the pickled element ids are the
\* ascending distinct elements of the attention edges, the interaction matrix
\* is square over them, and cell (i, j) is the sum of the weights of exactly
\* the edges with source zs[i] and target zs[j], divided by their number
\* (duplicates counted).
C1_CellIsMeanOfItsEdges ==
    Returned =>
        /\ pkl.zs = SortedSeq(AttnElems)
        /\ Len(pkl.attn) = Len(pkl.zs)
        /\ \A i \in 1..Len(pkl.zs) :
            /\ Len(pkl.attn[i]) = Len(pkl.zs)
            /\ \A j \in 1..Len(pkl.zs) :
                LET E == EdgesOf(pkl.zs[i], pkl.zs[j])
                IN /\ E # {}
                   /\ pkl.attn[i][j] = Frac(TotalWeight(E), Cardinality(E))

\* C1 witness: a completed run in which some cell averages several edges of
\* different weights.
C1_Witness ==
    /\ pc = "saved"
    /\ \E i, j \in 1..Len(pkl.zs) :
          /\ Cardinality(EdgesOf(pkl.zs[i], pkl.zs[j])) >= 2
          /\ pkl.attn[i][j][2] > 1

\* C2: after aggregation, for every source element with at least one
\* reference edge, the cells of its row of the bond probability matrix sum to
\* 1 and cell (i, j) is (reference edges of the ordered pair) / (reference
\* edges with that source).
C2_RowsAreConditionalProbabilities ==
    Returned =>
        \A i \in 1..Len(pkl.zs) :
            RefEdgesFrom(pkl.zs[i]) # {} =>
                /\ RatSum(pkl.counts_ref_square[i]) = <<1, 1>>
                /\ \A j \in 1..Len(pkl.zs) :
                      pkl.counts_ref_square[i][j] =
                          Frac(Cardinality(RefEdgesOf(pkl.zs[i], pkl.zs[j])),
                               Cardinality(RefEdgesFrom(pkl.zs[i])))

\* C2 witness: a completed run with two source elements, one of which spreads
\* its reference edges over two targets.
C2_Witness ==
    /\ pc = "saved"
    /\ \E i, k \in 1..Len(pkl.zs) :
          /\ i # k
          /\ RefEdgesFrom(pkl.zs[k]) # {}
          /\ \E j \in 1..Len(pkl.zs) : pkl.counts_ref_square[i][j][2] > 1

\* C3 (as claimed): once the pass over the batches has ended on attention
\* edges that cover every pair of their elements, the run has completed and
\* every element of an attention edge or of a reference edge is in the
\* pickled element ids, also an element that only reference edges carry.
C3_AllElementsInElementSet ==
    (Ended /\ AttnComplete) =>
        /\ err = "none"
        /\ \A z \in AttnElems \cup RefElems : z \in Range(pkl.zs)

\* C4 (as claimed): when some ordered pair of elements has no attention edge
\* (and every reference element has attention edges), the run still completes,
\* the cell of a pair without edges is undefined and every other cell is the
\* mean of its edges.
C4_MissingPairIsUndefinedCell ==
    (Ended /\ AttnEdges # {} /\ ~AttnComplete /\ RefElems \subseteq AttnElems) =>
        /\ err = "none"
        /\ pkl.zs = SortedSeq(AttnElems)
        /\ Len(pkl.attn) = Len(pkl.zs)
        /\ \A i \in 1..Len(pkl.zs) :
            /\ Len(pkl.attn[i]) = Len(pkl.zs)
            /\ \A j \in 1..Len(pkl.zs) :
                LET E == EdgesOf(pkl.zs[i], pkl.zs[j])
                IN pkl.attn[i][j] =
                       IF E = {} THEN NaN ELSE Frac(TotalWeight(E), Cardinality(E))

Matching ==
    {i \in 1..Len(pkl.dist) : {pkl.zs_full[1][i], pkl.zs_full[2][i]} = {z1, z2}}

MatchCount == Cardinality(Matching)

Occurrences(t, v) == Cardinality({k \in 1..Len(t) : t[k] = v})

\* The filtered samples as visualize saw them, sorted by its argsort.
FilteredDist == Masked(pkl.dist, PairMask(pkl.zs_full))
FilteredAttn == Masked(pkl.attn_full, PairMask(pkl.zs_full))

\* Length N, and position k carries the k-th smallest distance, which is the
\* distance of the sample whose attention opens position k's series entry.
CurveIsPairedWithSortedDistances ==
    /\ Len(fig.averaged) = MatchCount
    /\ Len(fig.x) = MatchCount
    /\ \A k \in 1..(MatchCount - 1) : fig.x[k] <= fig.x[k + 1]
    /\ \A i \in Matching : Occurrences(fig.x, pkl.dist[i])
                               = Cardinality({j \in Matching : pkl.dist[j] = pkl.dist[i]})
    /\ \A k \in 1..MatchCount : fig.x[k] = FilteredDist[fig.order[k]]

C7_ValueAlignedToOwnSample ==
    pc = "shown" =>
        /\ fig.ma_width = 1 =>
              \A k \in 1..MatchCount :
                  fig.averaged[k] = <<FilteredAttn[fig.order[k]], 1>>
        /\ \A k \in 1..MatchCount :
              ~IsNaN(fig.averaged[k]) =>
                  k \in RollingWindow(ShiftSource(k, -fig.ma_width), fig.ma_width)

\* C8: when fewer samples match the element pair (either ordering) than the
\* window, visualize ends without an exception, and the curve has one position
\* per matching sample, every one undefined.
C8_TooFewSamplesAllUndefined ==
    (pc = "shown" /\ MatchCount < fig.ma_width) =>
        /\ err = "none"
        /\ Len(fig.averaged) = MatchCount
        /\ \A k \in 1..MatchCount : IsNaN(fig.averaged[k])

\* C8 witness: two matching samples, one of each ordering, under window 3.
C8_Witness ==
    /\ pc = "shown"
    /\ fig.ma_width = 3
    /\ MatchCount = 2
    /\ \E i, j \in Matching : pkl.zs_full[1][i] = z1 /\ pkl.zs_full[1][j] = z2

(* ------------------- order of the batches, labels ---------------------- *)

RECURSIVE FoldBatches(_, _)
FoldBatches(acc, batches) ==
    IF batches = <<>> THEN acc
    ELSE FoldBatches(BatchStep(acc, Head(batches)), Tail(batches))

Permutations(n) ==
    {p \in [1..n -> 1..n] : \A i, j \in 1..n : i # j => p[i] # p[j]}

\* What the claim compares of a run: how it ended, the element ids, the two
\* matrices with their index space, and the atom counts as a mapping.
Outcome(r) ==
    [err |-> r.err,
     zs |-> r.pkl.zs,
     attn |-> r.pkl.attn,
     zs_ref |-> r.pkl.zs_ref,
     counts_ref_square |-> r.pkl.counts_ref_square,
     atoms_per_elem |-> Range(r.pkl.atoms_per_elem)]

\* C9: had the loader yielded the same batches in any other order, the run
\* would have ended the same way (the same exception or none) with the same
\* element ids in the same order, equal interaction and bond probability
\* matrices and equal per-element atom counts.
C9_BatchOrderDoesNotMatter ==
    pc \in {"saved", "failed"} =>
        \A p \in Permutations(Len(yielded)) :
            Outcome(Finalize(FoldBatches(EmptyAcc, Gather(yielded, p))))
                = Outcome([err |-> err, pkl |-> pkl])

\* C9 witness: a completed run over two batches whose raw edge arrays would
\* differ in the other order, and a cell that averages edges of both.
C9_Witness ==
    /\ pc = "saved"
    /\ Len(yielded) = 2
    /\ Finalize(FoldBatches(EmptyAcc, <<yielded[2], yielded[1]>>)).pkl.attn_full
          # pkl.attn_full
    /\ \E i, j \in 1..Len(pkl.zs) : pkl.attn[i][j][2] > 1

\* C10 (as claimed), for a run with reference edges: the pickled bond probability matrix is square with side
\* len(zs_ref), and its cell (k, l) is the probability of the ordered pair
\* (zs_ref[k], zs_ref[l]), so that the tick labels visualize puts at
\* positions 0..len(zs_ref)-1 name the rows and columns they sit on.
C10_BondMatrixIndexedByReferenceIds ==
    (Returned /\ RefEdges # {}) =>
        /\ Len(pkl.counts_ref_square) = Len(pkl.zs_ref)
        /\ \A k \in 1..Len(pkl.zs_ref) :
            /\ Len(pkl.counts_ref_square[k]) = Len(pkl.zs_ref)
            /\ \A l \in 1..Len(pkl.zs_ref) :
                  pkl.counts_ref_square[k][l] =
                      Frac(Cardinality(RefEdgesOf(pkl.zs_ref[k], pkl.zs_ref[l])),
                           Cardinality(RefEdgesFrom(pkl.zs_ref[k])))

=============================================================================
